---- MODULE Spec2Model ----
(***************************************************************************)
(* django-lang: a translatable Course catalogue.                           *)
(*                                                                         *)
(* The model has three parts:                                              *)
(*   - the two tables the migration leaves behind (course_course and       *)
(*     course_course_translation) and the row operations on them           *)
(*     (Spec);                                                             *)
(*   - the add_courses management command, one loop iteration per step     *)
(*     (SpecSeed);                                                         *)
(*   - URL resolution through urlpatterns (SpecUrl).                       *)
(***************************************************************************)
EXTENDS Integers, Sequences, FiniteSets, TLC

VARIABLES
    course,        \* rows of table course_course
    translation,   \* rows of table course_course_translation
    nextCourseId,  \* AutoField counter of course_course
    nextTransId,   \* AutoField counter of course_course_translation
    result,        \* outcome of the last row operation
    context,       \* template context of the request being served
    pc,            \* add_courses: "idle", "running", "done", "failed"
    i,             \* add_courses: the loop variable _
    lang,          \* add_courses: the language active while it runs
    stdout,        \* add_courses: what has been printed
    trace,         \* add_courses: (index, branch, course id) of each creation of this run
    pre,           \* add_courses: the tables as they were when this run started
    runs,          \* add_courses: runs started so far
    failures,      \* add_courses: runs that ended with an exception
    start,         \* the tables as they were in the initial state
    response       \* URL resolution: the last request and its match

dbvars == <<course, translation, nextCourseId, nextTransId>>
cmdvars == <<pc, i, lang, stdout, trace, pre, runs, failures, start>>
vars == <<course, translation, nextCourseId, nextTransId, result, context,
          pc, i, lang, stdout, trace, pre, runs, failures, start, response>>

----------------------------------------------------------------------------
(* Bounds of the model *)

MaxCourseId == 2
MaxTransId == 2
MaxSeedRuns == 2
MaxPathLen == 3
MaxRequests == 2

Languages == {"en", "fr"}

NoResult == [op |-> "none", status |-> "none", master |-> 0, language_code |-> "none", rows |-> 0]
NoContext == [language |-> "none", courses |-> {}, str |-> <<>>, rendered |-> FALSE]
NoResponse == [language |-> "none", path |-> <<>>, adminRoute |-> <<>>,
               rosettaOk |-> FALSE, courseOk |-> FALSE, handler |-> "none",
               tried |-> <<>>, served |-> 0]
NoSnapshot == [course |-> {}, translation |-> {}]

----------------------------------------------------------------------------
(* Schema: course_course and course_course_translation *)

\* price is a DecimalField with two decimal places: held in hundredths
Decimal2(units, hundredths) == units * 100 + hundredths

TranslatedFieldNames == {"title", "description", "date", "price"}

\* The course table before migration 0003 removed the four columns
CourseRowUnmigrated(id, f) ==
    [id |-> id, title |-> f.title, description |-> f.description,
     date |-> f.date, price |-> f.price]

\* A row of course_course: only the primary key is left
CourseRow(id, f) == [id |-> id]

TranslationRow(id, master, l, f) ==
    [id |-> id, master |-> master, language_code |-> l,
     title |-> f.title, description |-> f.description,
     date |-> f.date, price |-> f.price]

\* No uniqueness constraint at all
UniqueTogetherMissing(trans, master, l) == TRUE

\* unique_together (language_code, master): may a row for this pair be inserted
UniqueTogether(trans, master, l) ==
    ~ \E t \in trans : t.master = master /\ t.language_code = l

\* on_delete = DO_NOTHING
CascadeDoNothing(trans, cid) == trans

\* on_delete = CASCADE: the translation rows left when course cid is deleted
Cascade(trans, cid) == {t \in trans : t.master # cid}

CourseIds(rows) == {c.id : c \in rows}
TranslationsOf(trans, cid) == {t \in trans : t.master = cid}

\* Every language instead of the active one
AllLanguages(l) == Languages

\* The languages in which creating a Course writes a translation row
TranslationLanguages(l) == {l}

\* Field values entered through the admin
AdminFields ==
    { [title |-> "A", description |-> "d", date |-> "2021-01-01", price |-> Decimal2(10, 0)],
      [title |-> "B", description |-> "d", date |-> "2021-01-01", price |-> Decimal2(10, 0)] }

DoesNotExist == "DoesNotExist"

\* Reading an attribute gives <<value>>, or <<>> when the read raises DoesNotExist
Missing == <<>>

\* What reading a translated attribute of course cid under language l can give:
\* the value of the translation in l; without one, the value of a fallback
\* translation (which languages are fallbacks is configuration) or nothing.
TranslatedValues(trans, cid, l, field) ==
    IF \E t \in TranslationsOf(trans, cid) : t.language_code = l
    THEN {<<t[field]>> : t \in {u \in TranslationsOf(trans, cid) : u.language_code = l}}
    ELSE {<<t[field]>> : t \in TranslationsOf(trans, cid)} \cup {Missing}

----------------------------------------------------------------------------
(* Row operations (ORM / admin) *)

\* Course.objects.create(**f) under language l: the course row is saved, then
\* its translation row
ObjectsCreate(l, f) ==
    LET langs == TranslationLanguages(l)
        ids == nextTransId .. (nextTransId + Cardinality(langs) - 1)
        order == CHOOSE o \in [langs -> ids] : \A a, b \in langs : a # b => o[a] # o[b]
    IN  /\ course' = course \cup {CourseRow(nextCourseId, f)}
        /\ translation' = translation \cup
              {TranslationRow(order[x], nextCourseId, x, f) : x \in langs}
        /\ nextCourseId' = nextCourseId + 1
        /\ nextTransId' = nextTransId + Cardinality(langs)

\* The same call when saving the translation row raises: the course row was
\* saved before it and nothing undoes it
ObjectsCreateTranslationFails(l, f) ==
    /\ course' = course \cup {CourseRow(nextCourseId, f)}
    /\ translation' = translation
    /\ nextCourseId' = nextCourseId + 1
    /\ nextTransId' = nextTransId

CourseCreate(l, f) ==
    /\ nextCourseId <= MaxCourseId
    /\ nextTransId <= MaxTransId
    /\ ObjectsCreate(l, f)
    /\ result' = [op |-> "CourseCreate", status |-> "ok",
                  master |-> nextCourseId, language_code |-> l, rows |-> 1 + Cardinality(TranslationLanguages(l))]
    /\ context' = NoContext
    /\ UNCHANGED <<cmdvars, response>>

CourseCreateFails(l, f) ==
    /\ nextCourseId <= MaxCourseId
    /\ ObjectsCreateTranslationFails(l, f)
    /\ result' = [op |-> "CourseCreate", status |-> "DatabaseError",
                  master |-> nextCourseId, language_code |-> l, rows |-> 1]
    /\ context' = NoContext
    /\ UNCHANGED <<cmdvars, response>>

\* Add a translation in language l to course cid
TranslationAdd(cid, l, f) ==
    /\ cid \in CourseIds(course)
    /\ IF UniqueTogether(translation, cid, l)
       THEN /\ nextTransId <= MaxTransId
            /\ translation' = translation \cup {TranslationRow(nextTransId, cid, l, f)}
            /\ nextTransId' = nextTransId + 1
            /\ result' = [op |-> "TranslationAdd", status |-> "ok",
                          master |-> cid, language_code |-> l, rows |-> 1]
       ELSE /\ UNCHANGED <<translation, nextTransId>>
            /\ result' = [op |-> "TranslationAdd", status |-> "IntegrityError",
                          master |-> cid, language_code |-> l, rows |-> 0]
    /\ context' = NoContext
    /\ UNCHANGED <<course, nextCourseId, cmdvars, response>>

\* Edit the translated fields of one translation row
TranslationEdit(t, f) ==
    /\ t \in translation
    /\ TranslationRow(t.id, t.master, t.language_code, f) # t
    /\ translation' = (translation \ {t}) \cup
                      {TranslationRow(t.id, t.master, t.language_code, f)}
    /\ result' = [op |-> "TranslationEdit", status |-> "ok",
                  master |-> t.master, language_code |-> t.language_code, rows |-> 1]
    /\ context' = NoContext
    /\ UNCHANGED <<course, nextCourseId, nextTransId, cmdvars, response>>

\* Delete one translation row
TranslationDelete(t) ==
    /\ t \in translation
    /\ translation' = translation \ {t}
    /\ result' = [op |-> "TranslationDelete", status |-> "ok",
                  master |-> t.master, language_code |-> t.language_code, rows |-> 1]
    /\ context' = NoContext
    /\ UNCHANGED <<course, nextCourseId, nextTransId, cmdvars, response>>

\* Delete a course; its translation rows go with it
CourseDelete(c) ==
    /\ c \in course
    /\ course' = course \ {c}
    /\ translation' = Cascade(translation, c.id)
    /\ result' = [op |-> "CourseDelete", status |-> "ok",
                  master |-> c.id, language_code |-> "none", rows |-> 1 + Cardinality(TranslationsOf(translation, c.id))]
    /\ context' = NoContext
    /\ UNCHANGED <<nextCourseId, nextTransId, cmdvars, response>>

----------------------------------------------------------------------------
(* The list view *)

\* Only the courses translated into the active language
GetQuerysetTranslated(rows, trans, l) ==
    {c \in rows : \E t \in trans : t.master = c.id /\ t.language_code = l}

\* ListView with model = Course: the queryset is every Course row
GetQueryset(rows, trans, l) == rows

\* Course.__str__: the title as read under language l
Str(trans, cid, l) ==
    {IF v = Missing THEN DoesNotExist ELSE v[1] : v \in TranslatedValues(trans, cid, l, "title")}

\* GET of the list view under language l
ListCourse(l) ==
    /\ \E s \in [CourseIds(GetQueryset(course, translation, l)) ->
                    {f.title : f \in AdminFields} \cup {DoesNotExist}] :
          /\ \A cid \in DOMAIN s : s[cid] \in Str(translation, cid, l)
          /\ context' = [language |-> l,
                         courses |-> GetQueryset(course, translation, l),
                         str |-> s, rendered |-> TRUE]
    /\ result' = NoResult
    /\ UNCHANGED <<dbvars, cmdvars, response>>

----------------------------------------------------------------------------

InitDb ==
    /\ course = {}
    /\ translation = {}
    /\ nextCourseId = 1
    /\ nextTransId = 1
    /\ start = NoSnapshot

InitRest ==
    /\ result = NoResult
    /\ context = NoContext
    /\ pc = "idle"
    /\ i = 0
    /\ lang = "none"
    /\ stdout = <<>>
    /\ trace = <<>>
    /\ pre = NoSnapshot
    /\ runs = 0
    /\ failures = 0
    /\ response = NoResponse

Init == InitDb /\ InitRest

Next ==
    \/ \E l \in Languages, f \in AdminFields : CourseCreate(l, f)
    \/ \E l \in Languages, f \in AdminFields : CourseCreateFails(l, f)
    \/ \E cid \in CourseIds(course), l \in Languages, f \in AdminFields : TranslationAdd(cid, l, f)
    \/ \E t \in translation, f \in AdminFields : TranslationEdit(t, f)
    \/ \E t \in translation : TranslationDelete(t)
    \/ \E c \in course : CourseDelete(c)
    \/ \E l \in Languages : ListCourse(l)

Spec == Init /\ [][Next]_vars

----------------------------------------------------------------------------
(* Properties of the tables and the list view, checked under Spec *)

PairUnique ==
    \A t, u \in translation :
        (t.master = u.master /\ t.language_code = u.language_code) => t = u

\* The step adds a translation for a pair that already has a row
SecondRowAttempt ==
    /\ result'.op = "TranslationAdd"
    /\ \E t \in translation :
          t.master = result'.master /\ t.language_code = result'.language_code

\* C1: in every reachable state there is at most one translation row per
\* (course, language code) pair, and a step that tries to add a second row for
\* a pair that has one is rejected and leaves both tables as they were.
C1_OneTranslationPerPair ==
    /\ []PairUnique
    /\ [][SecondRowAttempt =>
            /\ result'.status = "IntegrityError"
            /\ translation' = translation
            /\ course' = course]_vars

\* A second row for an existing pair has just been refused, with several rows stored
C1_Witness ==
    /\ result.op = "TranslationAdd"
    /\ result.status = "IntegrityError"
    /\ Cardinality(translation) >= 2
    /\ \E t \in translation :
          t.master = result.master /\ t.language_code = result.language_code

\* C2: the 'courses' collection the list view hands to the template is exactly
\* the set of Course rows, and a course that has a title in the request's
\* language shows that title.
C2_ListShowsEveryCourse ==
    context.rendered =>
        /\ context.courses = course
        /\ DOMAIN context.str = CourseIds(course)
        /\ \A t \in translation :
              t.language_code = context.language => context.str[t.master] = t.title

\* The view has rendered a database holding a course titled in the request's
\* language and a course with no translation in it
C2_Witness ==
    /\ context.rendered
    /\ \E t \in translation : t.language_code = context.language
    /\ \E c \in course :
          ~ \E t \in translation : t.master = c.id /\ t.language_code = context.language

TranslationColumns == {"id", "master", "language_code"} \cup TranslatedFieldNames

\* C4: title, description, date and price live only in translation rows, each
\* with a language code and a parent course; a course row holds none of the
\* four, and a course without translation rows has no value for any of them
\* in any language.
C4_TranslatedFieldsInSideTable ==
    /\ \A c \in course : DOMAIN c \cap TranslatedFieldNames = {}
    /\ \A t \in translation :
          /\ DOMAIN t = TranslationColumns
          /\ t.language_code \in Languages
          /\ t.master \in CourseIds(course)
    /\ \A c \in course, l \in Languages, field \in TranslatedFieldNames :
          /\ TranslatedValues(translation, c.id, l, field) \subseteq
                {<<t[field]>> : t \in TranslationsOf(translation, c.id)} \cup {Missing}
          /\ TranslationsOf(translation, c.id) = {} =>
                TranslatedValues(translation, c.id, l, field) = {Missing}

\* A course without translation rows beside a course that has one
C4_Witness ==
    /\ \E c \in course : TranslationsOf(translation, c.id) = {}
    /\ \E c \in course : TranslationsOf(translation, c.id) # {}

NoDanglingTranslation ==
    \A t \in translation : t.master \in CourseIds(course)

\* C8: deleting a course deletes exactly the translation rows whose parent it
\* is, so no translation row ever refers to a course that is gone and the rows
\* of the other courses stay as they were.
C8_DeleteCascades ==
    /\ []NoDanglingTranslation
    /\ [][(course' # course /\ course' \subseteq course) =>
            translation' = {t \in translation : t.master \in CourseIds(course')}]_vars

\* A course with translation rows has just been deleted and another course's
\* translation row is still there
C8_Witness ==
    /\ result.op = "CourseDelete"
    /\ result.rows >= 2
    /\ translation # {}

----------------------------------------------------------------------------
(* The add_courses management command *)

\* range(4)
RangeShort == Len(<<0, 1, 2, 3>>)

\* for _ in range(5)
RangeN == 5

\* The second test repeats the first: indices 1..4 all reach a later branch
BranchRepeated(n) ==
    IF n = 0 THEN 0
    ELSE IF n = 0 THEN 1
    ELSE IF n = 2 THEN 2
    ELSE IF n = 3 THEN 3
    ELSE 4

\* The if / elif / else chain: the branch taken for loop index n (4 is the else)
Branch(n) ==
    IF n = 0 THEN 0
    ELSE IF n = 1 THEN 1
    ELSE IF n = 2 THEN 2
    ELSE IF n = 3 THEN 3
    ELSE 4

\* The keyword arguments of the create call in each branch
Samples ==
    << [title |-> "Test-Driven Development with Python, Flask, and Docker",
        description |-> "In this course, you'll learn how to set up a development environment with Docker in order to build and deploy a microservice powered by Python and Flask. You'll also apply the practices of Test-Driven Development with pytest as you develop a RESTful API.",
        date |-> "2021-07-17", price |-> Decimal2(30, 0)],
       [title |-> "Building Your Own Python Web Framework",
        description |-> "In this course, you'll learn how to develop your own Python web framework to see how all the magic works beneath the scenes in Flask, Django, and the other Python-based web frameworks.",
        date |-> "2021-03-02", price |-> Decimal2(25, 0)],
       [title |-> "Developing a Real-Time Taxi App with Django Channels and Angular",
        description |-> "Learn how to create a ride-sharing app with Django Channels, Angular, and Docker. Along the way, you'll learn how to manage client/server communication with Django Channels, control flow and routing with Angular, and build a RESTful API with Django REST Framework.",
        date |-> "2020-12-17", price |-> Decimal2(40, 0)],
       [title |-> "Learn Vue by Building and Deploying a CRUD App",
        description |-> "This course is focused on teaching the fundamentals of Vue by building and testing a web application using Test-Driven Development (TDD).",
        date |-> "2021-06-28", price |-> Decimal2(40, 0)],
       [title |-> "The Definitive Guide to Celery and Django",
        description |-> "Learn how to add Celery to a Django application to provide asynchronous task processing.",
        date |-> "2021-04-05", price |-> Decimal2(30, 0)] >>

BranchFields(b) == Samples[b + 1]

CompletedMessage == "Completed!!! Check your database."

\* As if handle ran inside one transaction: an exception restores the tables
AfterExceptionRollback(now, before) == before

\* handle opens no transaction and catches nothing: what was saved before the
\* exception stays saved
AfterException(now, before) == now

\* manage.py add_courses is started under language l
CommandStart(l) ==
    /\ pc \in {"idle", "done", "failed"}
    /\ runs < MaxSeedRuns
    /\ pc' = "running"
    /\ i' = 0
    /\ lang' = l
    /\ trace' = <<>>
    /\ pre' = [course |-> course, translation |-> translation]
    /\ runs' = runs + 1
    /\ result' = NoResult
    /\ context' = NoContext
    /\ UNCHANGED <<dbvars, stdout, failures, start, response>>

\* One loop iteration whose create call succeeds
CommandCreate ==
    /\ pc = "running"
    /\ i < RangeN
    /\ ObjectsCreate(lang, BranchFields(Branch(i)))
    /\ trace' = Append(trace, [index |-> i, branch |-> Branch(i), id |-> nextCourseId])
    /\ i' = i + 1
    /\ result' = [op |-> "CourseCreate", status |-> "ok",
                  master |-> nextCourseId, language_code |-> lang, rows |-> 1 + Cardinality(TranslationLanguages(lang))]
    /\ context' = NoContext
    /\ UNCHANGED <<pc, lang, stdout, pre, runs, failures, start, response>>

\* One loop iteration whose create call raises, before the course row is saved
\* (orphan = FALSE) or after it, while saving the translation row (orphan = TRUE).
\* The exception leaves handle.
CommandCreateRaises(orphan) ==
    /\ pc = "running"
    /\ i < RangeN
    /\ LET saved == IF orphan THEN course \cup {CourseRow(nextCourseId, BranchFields(Branch(i)))}
                              ELSE course
       IN  /\ course' = AfterException(saved, pre.course)
           /\ translation' = AfterException(translation, pre.translation)
    /\ nextCourseId' = IF orphan THEN nextCourseId + 1 ELSE nextCourseId
    /\ UNCHANGED nextTransId
    /\ pc' = "failed"
    /\ failures' = failures + 1
    /\ result' = [op |-> "CourseCreate", status |-> "DatabaseError",
                  master |-> nextCourseId, language_code |-> lang,
                  rows |-> IF orphan THEN 1 ELSE 0]
    /\ context' = NoContext
    /\ UNCHANGED <<i, lang, stdout, trace, pre, runs, start, response>>

\* The loop is over: print and return
CommandFinish ==
    /\ pc = "running"
    /\ i >= RangeN
    /\ stdout' = Append(stdout, CompletedMessage)
    /\ pc' = "done"
    /\ result' = NoResult
    /\ context' = NoContext
    /\ UNCHANGED <<dbvars, i, lang, trace, pre, runs, failures, start, response>>

CommandStep ==
    \/ CommandCreate
    \/ \E orphan \in BOOLEAN : CommandCreateRaises(orphan)
    \/ CommandFinish

\* A database the row operations above can produce, for the command to start from
SeedStartStates ==
    { [course |-> {}, translation |-> {}, nc |-> 1, nt |-> 1],
      [course |-> {[id |-> 1]}, translation |-> {}, nc |-> 2, nt |-> 1],
      [course |-> {[id |-> 2]},
       translation |-> {TranslationRow(3, 2, "fr", CHOOSE f \in AdminFields : f.title = "A")},
       nc |-> 3, nt |-> 4] }

InitSeed ==
    /\ \E db \in SeedStartStates :
          /\ course = db.course
          /\ translation = db.translation
          /\ nextCourseId = db.nc
          /\ nextTransId = db.nt
          /\ start = [course |-> db.course, translation |-> db.translation]
    /\ InitRest

NextSeed ==
    \/ \E l \in Languages : CommandStart(l)
    \/ CommandCreate
    \/ \E orphan \in BOOLEAN : CommandCreateRaises(orphan)
    \/ CommandFinish

\* Once started, the command's process keeps running until it returns or raises
SpecSeed == InitSeed /\ [][NextSeed]_vars /\ WF_vars(CommandStep)

----------------------------------------------------------------------------
(* Properties of the add_courses command, checked under SpecSeed *)

\* Runs that ended by returning
Completed == runs - failures - (IF pc = "running" THEN 1 ELSE 0)

\* The translated fields a translation row holds
FieldsOf(t) ==
    [title |-> t.title, description |-> t.description, date |-> t.date, price |-> t.price]

\* The course rows this run has added so far
AddedCourses == course \ pre.course
AddedTranslations == translation \ pre.translation
TraceIds == {trace[k].id : k \in 1 .. Len(trace)}

\* C3: a run that returns has added exactly five Course rows, the five samples
\* with their title, description, date and price, and has left every earlier
\* row as it was; n runs that all return, from an empty database, leave 5n
\* courses, the samples being duplicated by each run after the first.
C3_RunAddsFiveCourses ==
    /\ pc \in {"running", "done"} =>
          /\ pre.course \subseteq course
          /\ pre.translation \subseteq translation
    /\ pc = "done" =>
          /\ Cardinality(AddedCourses) = 5
          /\ CourseIds(AddedCourses) \cap CourseIds(pre.course) = {}
          /\ Len(trace) = 5
          /\ CourseIds(AddedCourses) = TraceIds
          /\ \A k \in 1 .. 5 :
                {FieldsOf(t) : t \in TranslationsOf(translation, trace[k].id)} = {Samples[k]}
    /\ (start.course = {} /\ failures = 0 /\ pc # "running") =>
          /\ Cardinality(course) = 5 * runs
          /\ \A k \in 1 .. 5 :
                Cardinality({t \in translation : t.title = Samples[k].title}) = runs

\* Two runs from an empty database have returned: ten courses
C3_Witness ==
    /\ pc = "done"
    /\ start.course = {}
    /\ failures = 0
    /\ runs = 2
    /\ Cardinality(course) = 10

SampleTitles ==
    << "Test-Driven Development with Python, Flask, and Docker",
       "Building Your Own Python Web Framework",
       "Developing a Real-Time Taxi App with Django Channels and Angular",
       "Learn Vue by Building and Deploying a CRUD App",
       "The Definitive Guide to Celery and Django" >>

LoopOrder ==
    /\ i \in 0 .. 5
    /\ Len(trace) = i
    /\ \A k \in 1 .. Len(trace) :
          /\ trace[k].index = k - 1
          /\ trace[k].branch = k - 1
          /\ {t.title : t \in TranslationsOf(translation, trace[k].id)} = {SampleTitles[k]}
    /\ \A j, k \in 1 .. 5 : j # k => SampleTitles[j] # SampleTitles[k]
    /\ pc = "done" =>
          \A b \in 0 .. 4 : Cardinality({k \in 1 .. Len(trace) : trace[k].branch = b}) = 1
    /\ Len(stdout) = Completed
    /\ \A k \in 1 .. Len(stdout) : stdout[k] = CompletedMessage

\* C5: a run visits the indices 0..4 in order, takes each of the five branches
\* once (the else branch for index 4 only), so it creates the five courses in
\* the fixed order with pairwise distinct titles; it prints the completion
\* message only after the fifth creation; and a started run always ends.
C5_LoopOrderAndTermination ==
    /\ []LoopOrder
    /\ [][stdout' # stdout => (i = 5 /\ Len(trace) = 5 /\ pc' = "done")]_vars
    /\ (pc = "running" ~> pc # "running")

\* A run has returned after its five creations and printed the message
C5_Witness ==
    /\ pc = "done"
    /\ Len(trace) = 5
    /\ trace[5].branch = 4
    /\ stdout # <<>>

\* C7: when the k-th creation raises, the run ends there: nothing is printed
\* for it, no later sample is created, and the k-1 courses created before in
\* the run stay in the database with the rows that were there before the run.
C7_FailedRunLeavesPartialSeed ==
    pc = "failed" =>
        /\ i < 5
        /\ Len(trace) = i
        /\ Len(stdout) = runs - failures
        /\ pre.course \subseteq course
        /\ pre.translation \subseteq translation
        /\ \A k \in 1 .. Len(trace) :
              /\ [id |-> trace[k].id] \in course
              /\ {FieldsOf(t) : t \in TranslationsOf(translation, trace[k].id)} = {Samples[k]}
        /\ Cardinality(AddedTranslations) = i
        /\ \A c \in AddedCourses :
              c.id \in TraceIds \/ TranslationsOf(translation, c.id) = {}
        /\ Cardinality(AddedCourses) \in {i, i + 1}

\* The third creation of a run has raised: two courses of that run are stored
C7_Witness ==
    /\ pc = "failed"
    /\ Len(trace) = 2
    /\ Cardinality(AddedCourses) >= 2

\* C9: each course the command creates has exactly one translation row, in the
\* language active during the run; after one run from an empty database there
\* are five translation rows for five courses, all in that language.
C9_OneTranslationInActiveLanguage ==
    /\ \A k \in 1 .. Len(trace) :
          /\ Cardinality(TranslationsOf(translation, trace[k].id)) = 1
          /\ \A t \in TranslationsOf(translation, trace[k].id) : t.language_code = lang
    /\ (pc = "done" /\ start.course = {} /\ runs = 1) =>
          /\ Cardinality(course) = 5
          /\ Cardinality(translation) = 5
          /\ \A t \in translation : t.language_code = lang

\* One run from an empty database has returned
C9_Witness ==
    /\ pc = "done"
    /\ start.course = {}
    /\ runs = 1
    /\ Cardinality(translation) = 5
    /\ lang = "fr"

----------------------------------------------------------------------------
(* URL resolution *)

\* A request path (without its leading slash) is a sequence of segments, each
\* followed by a slash or not
Token(seg, slash) == [seg |-> seg, slash |-> slash]

PathTokens ==
    {Token(seg, TRUE) : seg \in {"en", "fr", "admin", "gestion", "rosetta"}} \cup
    {Token(seg, FALSE) : seg \in {"admin", "rosetta"}}

RECURSIVE PathsOfLen(_)
PathsOfLen(n) ==
    IF n = 0 THEN {<<>>}
    ELSE {Append(p, t) : p \in PathsOfLen(n - 1), t \in PathTokens}

Paths == UNION {PathsOfLen(n) : n \in 0 .. MaxPathLen}

\* What the message catalogue of a language may give for the msgid 'admin/'
AdminSegments == {"admin", "gestion", "rosetta"}

StartsWith(p, prefix) ==
    /\ Len(p) >= Len(prefix)
    /\ SubSeq(p, 1, Len(prefix)) = prefix

StripPrefix(p, prefix) == SubSeq(p, Len(prefix) + 1, Len(p))

\* i18n_patterns: every pattern sits behind the active language's prefix
LanguagePrefix(l) == <<Token(l, TRUE)>>

\* The course list first
UrlPatternsCourseFirst(adminSeg) ==
    << [route |-> <<>>, include |-> "course"],
       [route |-> <<Token(adminSeg, TRUE)>>, include |-> "admin"],
       [route |-> <<Token("rosetta", TRUE)>>, include |-> "rosetta"] >>

\* urlpatterns, in the order written; adminSeg is the translation of 'admin/'
UrlPatterns(adminSeg) ==
    << [route |-> <<Token(adminSeg, TRUE)>>, include |-> "admin"],
       [route |-> <<Token("rosetta", TRUE)>>, include |-> "rosetta"],
       [route |-> <<>>, include |-> "course"] >>

\* Whether the included URLconf resolves what is left of the path. The admin
\* site's URLs end with a catch-all; what rosetta.urls and course.urls resolve
\* is an input of the request.
IncludeResolves(include, rosettaOk, courseOk) ==
    CASE include = "admin" -> TRUE
      [] include = "rosetta" -> rosettaOk
      [] include = "course" -> courseOk

\* The resolver: the patterns are tried in order; a pattern whose route matches
\* hands the rest to its include, and the next pattern is tried when the
\* include resolves nothing
RECURSIVE ResolveFrom(_, _, _, _, _, _)
ResolveFrom(k, patterns, rest, rosettaOk, courseOk, tried) ==
    IF k > Len(patterns) THEN [handler |-> "404", tried |-> tried]
    ELSE IF StartsWith(rest, patterns[k].route)
    THEN IF IncludeResolves(patterns[k].include, rosettaOk, courseOk)
         THEN [handler |-> patterns[k].include, tried |-> Append(tried, patterns[k].include)]
         ELSE ResolveFrom(k + 1, patterns, rest, rosettaOk, courseOk,
                          Append(tried, patterns[k].include))
    ELSE ResolveFrom(k + 1, patterns, rest, rosettaOk, courseOk, tried)

Resolve(l, path, adminSeg, rosettaOk, courseOk) ==
    IF StartsWith(path, LanguagePrefix(l))
    THEN ResolveFrom(1, UrlPatterns(adminSeg), StripPrefix(path, LanguagePrefix(l)),
                     rosettaOk, courseOk, <<>>)
    ELSE [handler |-> "404", tried |-> <<>>]

\* A request for some path arrives while some language is active
UrlRequest ==
    /\ response.handler = "none"
    /\ response.served < MaxRequests
    /\ \E l \in Languages, path \in Paths, adminSeg \in AdminSegments,
          rosettaOk \in BOOLEAN, courseOk \in BOOLEAN :
          LET m == Resolve(l, path, adminSeg, rosettaOk, courseOk)
          IN  response' = [language |-> l, path |-> path,
                           adminRoute |-> <<Token(adminSeg, TRUE)>>,
                           rosettaOk |-> rosettaOk, courseOk |-> courseOk,
                           handler |-> m.handler, tried |-> m.tried,
                           served |-> response.served]
    /\ UNCHANGED <<dbvars, cmdvars, result, context>>

\* The response is sent
UrlRespond ==
    /\ response.handler # "none"
    /\ response' = [NoResponse EXCEPT !.served = response.served + 1]
    /\ UNCHANGED <<dbvars, cmdvars, result, context>>

NextUrl ==
    \/ UrlRequest
    \/ UrlRespond

SpecUrl == Init /\ [][NextUrl]_vars

----------------------------------------------------------------------------
(* Properties of URL resolution, checked under SpecUrl *)

Includes ==
    UNION {{UrlPatterns(a)[k].include : k \in 1 .. Len(UrlPatterns(a))} : a \in AdminSegments}

====
